---- MODULE Spec2Model ----
\* A model of abundatron.py, the INSPECT batch fetcher: its argument check,
\* read_values, line resolution, the per-value query loop, parse_pre_block
\* and write_csv.
\*
\* Text is a sequence of one-character strings, so that the regular expression
\* FLOAT_RE, str.strip, str.split and str.splitlines act on characters as they
\* do in Python.  A finite float is the decimal it denotes, m * 10^e with m
\* not divisible by 10 (0 is 0 * 10^0), so that arithmetic on it is exact;
\* NaN and the infinities are values of their own.
EXTENDS Integers, Sequences, FiniteSets, TLC

VARIABLES pc, args, server, values, i, rows, wi, matched_wav, httpGets,
          resps, out, exit, html, parsed

vars == <<pc, args, server, values, i, rows, wi, matched_wav, httpGets,
          resps, out, exit, html, parsed>>

\* ---------------------------------------------------------------- text

Digits == {"0", "1", "2", "3", "4", "5", "6", "7", "8", "9"}

DigitVal(c) ==
    CASE c = "0" -> 0 [] c = "1" -> 1 [] c = "2" -> 2 [] c = "3" -> 3
      [] c = "4" -> 4 [] c = "5" -> 5 [] c = "6" -> 6 [] c = "7" -> 7
      [] c = "8" -> 8 [] c = "9" -> 9

Signs == {"-", "+"}

Whitespace == {" ", "\n", "\t"}

UpperAlpha == <<"A", "B", "C", "D", "E", "F", "G", "H", "I", "J", "K", "L", "M",
                "N", "O", "P", "Q", "R", "S", "T", "U", "V", "W", "X", "Y", "Z">>

LowerAlpha == <<"a", "b", "c", "d", "e", "f", "g", "h", "i", "j", "k", "l", "m",
                "n", "o", "p", "q", "r", "s", "t", "u", "v", "w", "x", "y", "z">>

LowerChar(c) ==
    IF \E k \in 1..Len(UpperAlpha) : UpperAlpha[k] = c
    THEN LowerAlpha[CHOOSE k \in 1..Len(UpperAlpha) : UpperAlpha[k] = c]
    ELSE c

\* str.lower
Lower(s) == [k \in 1..Len(s) |-> LowerChar(s[k])]

\* needle in hay
Contains(hay, needle) ==
    \E k \in 1..(Len(hay) - Len(needle) + 1) :
        SubSeq(hay, k, k + Len(needle) - 1) = needle

RECURSIVE LStrip(_)
LStrip(s) == IF s # <<>> /\ Head(s) \in Whitespace THEN LStrip(Tail(s)) ELSE s

RECURSIVE RStrip(_)
RStrip(s) ==
    IF s # <<>> /\ s[Len(s)] \in Whitespace
    THEN RStrip(SubSeq(s, 1, Len(s) - 1)) ELSE s

\* str.strip
Strip(s) == RStrip(LStrip(s))

\* The pieces of s between the occurrences of sep, the empty ones included
\* (str.split(sep)).
RECURSIVE SplitOn(_, _)
SplitOn(s, sep) ==
    IF \E k \in 1..Len(s) : s[k] = sep
    THEN LET k == CHOOSE j \in 1..Len(s) :
                      s[j] = sep /\ \A h \in 1..(j - 1) : s[h] # sep
         IN <<SubSeq(s, 1, k - 1)>> \o SplitOn(SubSeq(s, k + 1, Len(s)), sep)
    ELSE <<s>>

\* str.splitlines: the lines of s; a final line break opens no further line.
SplitLines(s) ==
    LET parts == SplitOn(s, "\n")
    IN IF parts[Len(parts)] = <<>>
       THEN SubSeq(parts, 1, Len(parts) - 1) ELSE parts

\* "\n".join(ls)
RECURSIVE JoinLines(_)
JoinLines(ls) ==
    IF ls = <<>> THEN <<>>
    ELSE IF Len(ls) = 1 THEN ls[1]
    ELSE ls[1] \o <<"\n">> \o JoinLines(Tail(ls))

\* ---------------------------------------------------------------- FLOAT_RE

\* The end of the run of digits of s that starts at p (p itself when s[p] is
\* no digit): \d+ is greedy.
RECURSIVE DigitsEnd(_, _)
DigitsEnd(s, p) ==
    IF p <= Len(s) /\ s[p] \in Digits THEN DigitsEnd(s, p + 1) ELSE p

\* (?:[eE][-+]?\d+)? at position c: the position after the exponent, c when
\* there is none.
ExponentEnd(s, c) ==
    IF c <= Len(s) /\ s[c] \in {"e", "E"}
    THEN IF c + 1 <= Len(s) /\ s[c + 1] \in Signs
         THEN (IF DigitsEnd(s, c + 2) > c + 2 THEN DigitsEnd(s, c + 2) ELSE c)
         ELSE (IF DigitsEnd(s, c + 1) > c + 1 THEN DigitsEnd(s, c + 1) ELSE c)
    ELSE c

\* (?:\.\d+)? at position b: the position after the fraction, b when there is
\* none.
FractionEnd(s, b) ==
    IF b + 1 <= Len(s) /\ s[b] = "." /\ s[b + 1] \in Digits
    THEN DigitsEnd(s, b + 1) ELSE b

\* \d+ (?:\.\d+)? (?:[eE][-+]?\d+)? between a and the end b of the digits
\* that start at a: 0 when there is no digit.
MantissaEnd(s, a, b) == IF b = a THEN 0 ELSE ExponentEnd(s, FractionEnd(s, b))

\* re.match of FLOAT_RE at position p of s: the position after the match, 0
\* when there is none.  [-+]? \d+ (?:\.\d+)? (?:[eE][-+]?\d+)?
MatchEnd(s, p) ==
    IF p <= Len(s) /\ s[p] \in Signs
    THEN MantissaEnd(s, p + 1, DigitsEnd(s, p + 1))
    ELSE MantissaEnd(s, p, DigitsEnd(s, p))

\* FLOAT_RE.search(s) from position p on: <<start, end>> of the leftmost
\* match, <<0, 0>> when there is none.
RECURSIVE SearchFrom(_, _)
Found(s, p, e) == IF e # 0 THEN <<p, e>> ELSE SearchFrom(s, p + 1)

SearchFrom(s, p) == IF p > Len(s) THEN <<0, 0>> ELSE Found(s, p, MatchEnd(s, p))

\* FLOAT_RE.search(s) is not None
HasNumber(s) == SearchFrom(s, 1)[1] # 0

\* m.group(0) of a match m = <<start, end>>
Group(s, m) == SubSeq(s, m[1], m[2] - 1)

\* FLOAT_RE.search(s).group(0)
FirstNumber(s) == Group(s, SearchFrom(s, 1))

\* FLOAT_RE.findall(s): the matches from left to right, none overlapping.
RECURSIVE FindAllFrom(_, _)
Matches(s, m) == IF m[1] = 0 THEN <<>> ELSE <<Group(s, m)>> \o FindAllFrom(s, m[2])

FindAllFrom(s, p) == Matches(s, SearchFrom(s, p))

FindAll(s) == FindAllFrom(s, 1)

\* ---------------------------------------------------------------- float

\* The finite float m * 10^e.
Fin(m, e) == [k |-> "fin", m |-> m, e |-> e]

NaN == [k |-> "nan", m |-> 0, e |-> 0]

Inf == [k |-> "inf", m |-> 1, e |-> 0]

NegInf == [k |-> "inf", m |-> -1, e |-> 0]

\* math.isnan
IsNaN(x) == x.k = "nan"

RECURSIVE Pow10(_)
Pow10(n) == IF n = 0 THEN 1 ELSE 10 * Pow10(n - 1)

RECURSIVE Normalize(_, _)
Normalize(m, e) ==
    IF m = 0 THEN Fin(0, 0)
    ELSE IF m % 10 = 0 THEN Normalize(m \div 10, e + 1)
    ELSE Fin(m, e)

MinOf(a, b) == IF a < b THEN a ELSE b

\* x - y
Sub(x, y) ==
    IF IsNaN(x) \/ IsNaN(y) THEN NaN
    ELSE IF x.k = "inf" THEN (IF y.k = "inf" /\ y.m = x.m THEN NaN ELSE x)
    ELSE IF y.k = "inf" THEN (IF y.m = 1 THEN NegInf ELSE Inf)
    ELSE LET e == MinOf(x.e, y.e)
         IN Normalize(x.m * Pow10(x.e - e) - y.m * Pow10(y.e - e), e)

\* abs(x)
Abs(x) ==
    IF x.k = "fin" THEN Fin(IF x.m < 0 THEN -x.m ELSE x.m, x.e)
    ELSE IF x.k = "inf" THEN Inf
    ELSE NaN

\* x < y: every comparison with NaN is False.
Less(x, y) ==
    IF IsNaN(x) \/ IsNaN(y) THEN FALSE
    ELSE IF x.k = "inf" THEN x.m = -1 /\ y # NegInf
    ELSE IF y.k = "inf" THEN y.m = 1
    ELSE LET e == MinOf(x.e, y.e)
         IN x.m * Pow10(x.e - e) < y.m * Pow10(y.e - e)

RECURSIVE DigitsToInt(_)
DigitsToInt(ds) ==
    IF ds = <<>> THEN 0
    ELSE 10 * DigitsToInt(SubSeq(ds, 1, Len(ds) - 1)) + DigitVal(ds[Len(ds)])

\* The exponent of a decimal literal, from position c on, where the mantissa
\* ends: nothing, or e, an optional sign and digits up to the end.
IsExponent(t, c) ==
    \/ c = Len(t) + 1
    \/ /\ c <= Len(t) /\ t[c] \in {"e", "E"}
       /\ IF c + 1 <= Len(t) /\ t[c + 1] \in Signs
          THEN c + 2 <= Len(t) /\ DigitsEnd(t, c + 2) = Len(t) + 1
          ELSE c + 1 <= Len(t) /\ DigitsEnd(t, c + 1) = Len(t) + 1

\* The mantissa from position a on, b being the end of its integer digits:
\* digits [. [digits]] or . digits.
IsMantissa(t, a, b) ==
    IF b <= Len(t) /\ t[b] = "."
    THEN (b - a) + (DigitsEnd(t, b + 1) - (b + 1)) > 0 /\ IsExponent(t, DigitsEnd(t, b + 1))
    ELSE b > a /\ IsExponent(t, b)

\* Whether t is a decimal literal float() accepts: [sign] digits [. [digits]]
\* or [sign] . digits, then an optional exponent.
IsDecimalLiteral(t) ==
    IF t # <<>> /\ t[1] \in Signs
    THEN IsMantissa(t, 2, DigitsEnd(t, 2))
    ELSE IsMantissa(t, 1, DigitsEnd(t, 1))

\* The value of the exponent that starts at position c (0 when none does).
ExponentValue(t, c) ==
    IF c > Len(t) THEN 0
    ELSE IF t[c + 1] = "-" THEN -DigitsToInt(SubSeq(t, c + 2, Len(t)))
    ELSE IF t[c + 1] = "+" THEN DigitsToInt(SubSeq(t, c + 2, Len(t)))
    ELSE DigitsToInt(SubSeq(t, c + 1, Len(t)))

\* The value of integer digits ip, fraction digits fp and an exponent ex.
Decimal(neg, ip, fp, ex) ==
    Normalize((IF neg THEN -1 ELSE 1) * DigitsToInt(ip \o fp), ex - Len(fp))

\* The value of the literal whose integer digits run from a to b - 1 and
\* whose mantissa ends before c.
MantissaValue(t, a, b, c) ==
    Decimal(t[1] = "-", SubSeq(t, a, b - 1), SubSeq(t, b + 1, c - 1), ExponentValue(t, c))

FractionValue(t, a, b) ==
    IF b <= Len(t) /\ t[b] = "."
    THEN MantissaValue(t, a, b, DigitsEnd(t, b + 1))
    ELSE MantissaValue(t, a, b, b)

\* The value of a decimal literal.
LiteralValue(t) ==
    IF t[1] \in Signs
    THEN FractionValue(t, 2, DigitsEnd(t, 2))
    ELSE FractionValue(t, 1, DigitsEnd(t, 1))

\* The unsigned, lower-cased body of a literal.
Unsigned(t) == Lower(IF t # <<>> /\ t[1] \in Signs THEN Tail(t) ELSE t)

IsNanLiteral(t) == Unsigned(t) = <<"n", "a", "n">>

IsInfLiteral(t) ==
    Unsigned(t) \in {<<"i", "n", "f">>, <<"i", "n", "f", "i", "n", "i", "t", "y">>}

IsLiteral(t) == IsDecimalLiteral(t) \/ IsNanLiteral(t) \/ IsInfLiteral(t)

\* Whether float(s) returns; it raises ValueError otherwise.  Surrounding
\* whitespace is ignored.
IsFloat(s) == IsLiteral(Strip(s))

ValueOf(t) ==
    IF IsNanLiteral(t) THEN NaN
    ELSE IF IsInfLiteral(t) THEN (IF t[1] = "-" THEN NegInf ELSE Inf)
    ELSE LiteralValue(t)

\* float(s), for a text float() accepts.
Float(s) == ValueOf(Strip(s))

\* ---------------------------------------------------------------- parse_pre_block

FilterBlank(ls) == SelectSeq(ls, LAMBDA ln : Strip(ln) # <<>>)

\* next((ln for ln in reversed(lines) if FLOAT_RE.search(ln)), None), as the
\* position of that line; 0 is None.
ValueLine(ls) ==
    IF \E k \in 1..Len(ls) : HasNumber(ls[k])
    THEN CHOOSE k \in 1..Len(ls) :
             HasNumber(ls[k]) /\ \A j \in (k + 1)..Len(ls) : ~HasNumber(ls[j])
    ELSE 0

\* "\n".join(lines[:2]).lower()
Header(ls) == Lower(JoinLines(SubSeq(ls, 1, MinOf(Len(ls), 2))))

EwKeys == <<"EW_mA", "A_LTE", "A_NLTE", "Delta", "OFe_NLTE">>

LteKeys == <<"A_LTE", "A_NLTE", "Delta", "OFe_NLTE">>

ShortKeys == <<"A_LTE", "A_NLTE", "Delta">>

\* The dict {keys[1]: nums[1], ..., keys[n]: nums[n]}.
DictOf(keys, nums) ==
    [k \in {keys[j] : j \in 1..Len(keys)} |->
        nums[CHOOSE j \in 1..Len(keys) : keys[j] = k]]

EmptyDict == [k \in {} |-> 0]

\* How a call ends: it returns a value, or raises an exception of a type
\* with a message.
Returned(v) == [kind |-> "return", type |-> "", msg |-> "", value |-> v]

Raised(type, msg) == [kind |-> "raise", type |-> type, msg |-> msg, value |-> EmptyDict]

\* A page: has_pre says whether it holds a <pre> element, pre is that
\* element's text.
Page(has_pre, pre) == [has_pre |-> has_pre, pre |-> pre]

\* Lines 212-224 with the ">= 5" of the header test turned into "== 5": a
\* longer line under an EW header is no longer read.
NameByCountExactlyFive(header, nums) ==
    IF Len(nums) = 5 THEN Returned(DictOf(EwKeys, nums))
    ELSE IF Len(nums) = 4 THEN Returned(DictOf(LteKeys, nums))
    ELSE IF Len(nums) = 3 THEN Returned(DictOf(ShortKeys, nums))
    ELSE Raised("RuntimeError", "Unrecognized numeric format in result line")

\* The naming of the numbers of the value line by their count.
NameByCount(header, nums) ==
    IF Contains(header, <<"e", "w">>) /\ Len(nums) >= 5
    THEN Returned(DictOf(EwKeys, nums))
    ELSE IF Len(nums) = 5 THEN Returned(DictOf(EwKeys, nums))
    ELSE IF Len(nums) = 4 THEN Returned(DictOf(LteKeys, nums))
    ELSE IF Len(nums) = 3 THEN Returned(DictOf(ShortKeys, nums))
    ELSE Raised("RuntimeError", "Unrecognized numeric format in result line")

\* nums = [float(x) for x in FLOAT_RE.findall(value_line)]
Floats(lex) == [k \in 1..Len(lex) |-> Float(lex[k])]

\* Lines 205-224, on the non-blank lines and the position of the value line.
ParseValueLine(lines, value_line) ==
    IF value_line = 0
    THEN Raised("RuntimeError", "Could not locate numeric result line.")
    ELSE NameByCount(Header(lines), Floats(FindAll(lines[value_line])))

\* Lines 201-224, on the non-blank lines of the block.
ParseLines(lines) ==
    IF lines = <<>> THEN Raised("RuntimeError", "Empty results block.")
    ELSE ParseValueLine(lines, ValueLine(lines))

\* parse_pre_block(html).  sys.exit(1) raises SystemExit.
ParsePreBlock(h) ==
    IF ~h.has_pre THEN Raised("SystemExit", "1")
    ELSE ParseLines(FilterBlank(SplitLines(Strip(h.pre))))

\* ---------------------------------------------------------------- state

\* The parsed command line.  An option that was not given is None in the
\* code: here its _given field is FALSE.  stdin_isatty is sys.stdin.isatty(),
\* values_file_exists whether the file of --values-file can be read.
NoArgs == [wavelength_given |-> FALSE, wavelength |-> NaN,
           wi_given |-> FALSE, wi |-> 0, mode |-> "ew",
           values_given |-> FALSE, values |-> <<>>,
           values_file_given |-> FALSE, values_file_exists |-> FALSE,
           values_file |-> <<>>,
           stdin_isatty |-> TRUE, stdin |-> <<>>,
           element |-> "O", teff |-> Fin(5777, 0), logg |-> Fin(444, -2),
           feh |-> Fin(0, 0), vt |-> Fin(1, 0)]

\* The calculator page of the element: the outcome of the GET ("ok", or
\* "error" when session.get raises), the status of the response, whether the
\* page has a <select name="wi"> and its options, each <<value, text>>.
NoServer == [get |-> "ok", status |-> 200, has_select |-> FALSE, options |-> <<>>]

NoPage == Page(FALSE, <<>>)

NoResult == Raised("", "")

\* How the process ended: the type of the exception that ended it and its
\* message; both empty while it runs or when main returned.
NoExit == [type |-> "", msg |-> ""]

NoOut == [written |-> FALSE, header |-> <<>>, body |-> <<>>]

\* ---------------------------------------------------------------- parse_pre_block, on every block

\* The longest <pre> text that is built.
MaxPreLen == 15

\* What the text of a <pre> block is built from: two numbers, a header word
\* and the line break.
PreChunks == { <<"1", " ">>, <<"-", "2", "e", "1", " ">>, <<"E", "w">>, <<"\n">> }

InitParse ==
    /\ pc = "build"
    /\ html \in {NoPage, Page(TRUE, <<>>)}
    /\ parsed = NoResult
    /\ args = NoArgs
    /\ server = NoServer
    /\ values = <<>>
    /\ i = 0
    /\ rows = <<>>
    /\ wi = 0
    /\ matched_wav = NaN
    /\ httpGets = 0
    /\ resps = <<>>
    /\ out = NoOut
    /\ exit = NoExit

\* The server writes one more piece of the <pre> block.
TypeChunk(c) ==
    /\ pc = "build"
    /\ html.has_pre
    /\ Len(html.pre) + Len(c) <= MaxPreLen
    /\ html' = Page(TRUE, html.pre \o c)
    /\ UNCHANGED <<pc, parsed, args, server, values, i, rows, wi, matched_wav,
                   httpGets, resps, out, exit>>

\* out = parse_pre_block(r.text)
Parse ==
    /\ pc = "build"
    /\ parsed' = ParsePreBlock(html)
    /\ pc' = "parsed"
    /\ UNCHANGED <<html, args, server, values, i, rows, wi, matched_wav,
                   httpGets, resps, out, exit>>

NextParse == (\E c \in PreChunks : TypeChunk(c)) \/ Parse

SpecParse == InitParse /\ [][NextParse]_vars

\* The non-blank lines of the block, the line the values are read from, its
\* numbers and whether the first two lines hold "ew", as the claim words them.
BlockLines == FilterBlank(SplitLines(html.pre))

HasDigit(ln) == \E k \in 1..Len(ln) : ln[k] \in Digits

LastLineWithNumber ==
    BlockLines[CHOOSE k \in 1..Len(BlockLines) :
        HasDigit(BlockLines[k]) /\ \A j \in (k + 1)..Len(BlockLines) : ~HasDigit(BlockLines[j])]

Numbers == Floats(FindAll(LastLineWithNumber))

EwInHeader ==
    \E k \in 1..MinOf(2, Len(BlockLines)) : \E j \in 1..(Len(BlockLines[k]) - 1) :
        BlockLines[k][j] \in {"e", "E"} /\ BlockLines[k][j + 1] \in {"w", "W"}

ParsedNumericBlock ==
    pc = "parsed" /\ html.has_pre /\ \E k \in 1..Len(BlockLines) : HasDigit(BlockLines[k])

\* C4: parse_pre_block reads the numbers of the last non-blank line that
\* holds a number and names them by their count: 5 numbers (or 5 and more
\* under a header with "ew" in the first two lines) are EW_mA, A_LTE, A_NLTE,
\* Delta, OFe_NLTE; 4 are A_LTE, A_NLTE, Delta, OFe_NLTE; 3 are A_LTE, A_NLTE,
\* Delta; every other count raises "Unrecognized numeric format".
C4_NamedByCount ==
    ParsedNumericBlock =>
        LET n == Len(Numbers) IN
        IF n = 5 \/ (n >= 5 /\ EwInHeader)
        THEN /\ parsed.kind = "return"
             /\ DOMAIN parsed.value = {"EW_mA", "A_LTE", "A_NLTE", "Delta", "OFe_NLTE"}
             /\ parsed.value["EW_mA"] = Numbers[1]
             /\ parsed.value["A_LTE"] = Numbers[2]
             /\ parsed.value["A_NLTE"] = Numbers[3]
             /\ parsed.value["Delta"] = Numbers[4]
             /\ parsed.value["OFe_NLTE"] = Numbers[5]
        ELSE IF n = 4
        THEN /\ parsed.kind = "return"
             /\ DOMAIN parsed.value = {"A_LTE", "A_NLTE", "Delta", "OFe_NLTE"}
             /\ parsed.value["A_LTE"] = Numbers[1]
             /\ parsed.value["A_NLTE"] = Numbers[2]
             /\ parsed.value["Delta"] = Numbers[3]
             /\ parsed.value["OFe_NLTE"] = Numbers[4]
        ELSE IF n = 3
        THEN /\ parsed.kind = "return"
             /\ DOMAIN parsed.value = {"A_LTE", "A_NLTE", "Delta"}
             /\ parsed.value["A_LTE"] = Numbers[1]
             /\ parsed.value["A_NLTE"] = Numbers[2]
             /\ parsed.value["Delta"] = Numbers[3]
        ELSE /\ parsed.kind = "raise"
             /\ parsed.type = "RuntimeError"
             /\ parsed.msg = "Unrecognized numeric format in result line"

\* A block of three lines whose value line, six numbers long, is neither its
\* first nor its last line, read under an EW header.
C4_Witness ==
    /\ ParsedNumericBlock
    /\ Len(Numbers) > 5
    /\ EwInHeader
    /\ Len(BlockLines) >= 2
    /\ ~HasDigit(BlockLines[Len(BlockLines)])
    /\ parsed.kind = "return"

\* ---------------------------------------------------------------- write_csv

\* The code point of a character of a column name.
Ord(c) ==
    IF \E k \in 1..26 : UpperAlpha[k] = c
    THEN 64 + (CHOOSE k \in 1..26 : UpperAlpha[k] = c)
    ELSE IF \E k \in 1..26 : LowerAlpha[k] = c
    THEN 96 + (CHOOSE k \in 1..26 : LowerAlpha[k] = c)
    ELSE IF c \in Digits THEN 48 + DigitVal(c)
    ELSE 95

\* The characters of the column names.
Spelling ==
    [ mode |-> <<"m", "o", "d", "e">>,
      element |-> <<"e", "l", "e", "m", "e", "n", "t">>,
      wi |-> <<"w", "i">>,
      wavelength_A |-> <<"w", "a", "v", "e", "l", "e", "n", "g", "t", "h", "_", "A">>,
      Teff |-> <<"T", "e", "f", "f">>,
      logg |-> <<"l", "o", "g", "g">>,
      FeH |-> <<"F", "e", "H">>,
      vt |-> <<"v", "t">>,
      input_value |-> <<"i", "n", "p", "u", "t", "_", "v", "a", "l", "u", "e">>,
      EW_mA |-> <<"E", "W", "_", "m", "A">>,
      A_LTE |-> <<"A", "_", "L", "T", "E">>,
      A_NLTE |-> <<"A", "_", "N", "L", "T", "E">>,
      Delta |-> <<"D", "e", "l", "t", "a">>,
      OFe_NLTE |-> <<"O", "F", "e", "_", "N", "L", "T", "E">>,
      error |-> <<"e", "r", "r", "o", "r">>,
      note |-> <<"n", "o", "t", "e">>,
      Zeta |-> <<"Z", "e", "t", "a">> ]

\* s < t for two texts: the order of their first differing code point, a
\* proper prefix first.
RECURSIVE TextLess(_, _)
TextLess(s, t) ==
    IF t = <<>> THEN FALSE
    ELSE IF s = <<>> THEN TRUE
    ELSE IF Head(s) # Head(t) THEN Ord(Head(s)) < Ord(Head(t))
    ELSE TextLess(Tail(s), Tail(t))

StrLess(a, b) == TextLess(Spelling[a], Spelling[b])

\* sorted(cols)
RECURSIVE Sorted(_)
Sorted(cols) ==
    IF cols = {} THEN <<>>
    ELSE LET least == CHOOSE c \in cols : \A d \in cols \ {c} : StrLess(c, d)
         IN <<least>> \o Sorted(cols \ {least})

preferred == <<"mode", "element", "wi", "wavelength_A", "Teff", "logg", "FeH", "vt",
               "input_value", "EW_mA", "A_LTE", "A_NLTE", "Delta", "OFe_NLTE", "error">>

InSeq(x, sq) == \E k \in 1..Len(sq) : sq[k] = x

\* cols: the keys of all rows.
Cols(rs) == UNION {DOMAIN rs[r] : r \in 1..Len(rs)}

\* Line 300 with the preferred columns left where sorting puts them.
CsvHeaderSortedOnly(rs) == Sorted(Cols(rs))

\* header = [c for c in preferred if c in cols]
\*        + [c for c in sorted(cols) if c not in preferred]
CsvHeader(rs) ==
    SelectSeq(preferred, LAMBDA c : c \in Cols(rs))
        \o SelectSeq(Sorted(Cols(rs)), LAMBDA c : ~InSeq(c, preferred))

\* What csv.DictWriter writes for a row: under every column of the header
\* the row's value, nothing where the row has no such key.
CsvRecord(header, row) ==
    [c \in 1..Len(header) |->
        IF header[c] \in DOMAIN row THEN <<row[header[c]]>> ELSE <<>>]

\* write_csv(rows, out_path): what is written.
WriteCsv(rs) ==
    IF rs = <<>> THEN NoOut
    ELSE [written |-> TRUE, header |-> CsvHeader(rs),
          body |-> [r \in 1..Len(rs) |-> CsvRecord(CsvHeader(rs), rs[r])]]

\* d.update({k: v})
Update(d, k, v) == [x \in DOMAIN d \cup {k} |-> IF x = k THEN v ELSE d[x]]

\* ---------------------------------------------------------------- write_csv, on every list of rows

\* The most rows that are written.
MaxRows == 2

\* The keys the rows are built from: three preferred ones and two others,
\* one of them capitalised.
RowKeys == {"mode", "element", "error", "note", "Zeta"}

InitCsv ==
    /\ pc = "build"
    /\ rows = <<>>
    /\ out = NoOut
    /\ html = NoPage
    /\ parsed = NoResult
    /\ args = NoArgs
    /\ server = NoServer
    /\ values = <<>>
    /\ i = 0
    /\ wi = 0
    /\ matched_wav = NaN
    /\ httpGets = 0
    /\ resps = <<>>
    /\ exit = NoExit

\* The caller appends an empty row.
AddRow ==
    /\ pc = "build"
    /\ Len(rows) < MaxRows
    /\ rows' = Append(rows, EmptyDict)
    /\ UNCHANGED <<pc, out, html, parsed, args, server, values, i, wi,
                   matched_wav, httpGets, resps, exit>>

\* The caller sets a key of the last row.
AddKey(k) ==
    /\ pc = "build"
    /\ rows # <<>>
    /\ k \notin DOMAIN rows[Len(rows)]
    /\ rows' = [rows EXCEPT ![Len(rows)] = Update(@, k, "x")]
    /\ UNCHANGED <<pc, out, html, parsed, args, server, values, i, wi,
                   matched_wav, httpGets, resps, exit>>

\* write_csv(rows, out_path)
CallWriteCsv ==
    /\ pc = "build"
    /\ out' = WriteCsv(rows)
    /\ pc' = "written"
    /\ UNCHANGED <<rows, html, parsed, args, server, values, i, wi,
                   matched_wav, httpGets, resps, exit>>

NextCsv == AddRow \/ (\E k \in RowKeys : AddKey(k)) \/ CallWriteCsv

SpecCsv == InitCsv /\ [][NextCsv]_vars

PreferredPos(c) == CHOOSE k \in 1..Len(preferred) : preferred[k] = c

\* C5: for a non-empty list of rows the header holds exactly the keys of the
\* rows, each once, the preferred ones first in their fixed order and the
\* others after them in sorted order; for an empty list nothing is written.
C5_HeaderOrder ==
    pc = "written" =>
        IF rows = <<>> THEN ~out.written /\ out.header = <<>>
        ELSE LET h == out.header IN
             /\ out.written
             /\ {h[k] : k \in 1..Len(h)} = Cols(rows)
             /\ \A j, k \in 1..Len(h) : j # k => h[j] # h[k]
             /\ \A j, k \in 1..Len(h) : j < k =>
                    \/ InSeq(h[j], preferred) /\ ~InSeq(h[k], preferred)
                    \/ /\ InSeq(h[j], preferred) /\ InSeq(h[k], preferred)
                       /\ PreferredPos(h[j]) < PreferredPos(h[k])
                    \/ /\ ~InSeq(h[j], preferred) /\ ~InSeq(h[k], preferred)
                       /\ StrLess(h[j], h[k])
             /\ DOMAIN out.body = 1..Len(rows)

\* Two rows with different keys: preferred ones that sorting would put in
\* another order, and others that sort by code point.
C5_Witness ==
    /\ pc = "written"
    /\ Len(rows) = 2
    /\ DOMAIN rows[1] # DOMAIN rows[2]
    /\ out.header = <<"mode", "element", "error", "Zeta", "note">>

\* ---------------------------------------------------------------- read_values

NonBlank(ls) == SelectSeq(ls, LAMBDA ln : Strip(ln) # <<>>)

\* The items of --values that are not blank: s for s in
\* args.values.split(",") if s.strip().  An option that is absent or empty
\* is skipped.
ValueItems(a) ==
    IF a.values_given /\ a.values # <<>>
    THEN NonBlank(SplitOn(a.values, ",")) ELSE <<>>

\* float(m.group(0)) of the first match on every line
FirstFloats(ls) == [k \in 1..Len(ls) |-> Float(FirstNumber(ls[k]))]

StripAll(ls) == [k \in 1..Len(ls) |-> Strip(ls[k])]

\* The floats read from the lines of a text: the first match of FLOAT_RE on
\* every stripped, non-blank line that has one.
LineValues(text) ==
    FirstFloats(SelectSeq(StripAll(SplitLines(text)),
                          LAMBDA ln : ln # <<>> /\ HasNumber(ln)))

FromFile(a) ==
    IF a.values_file_given /\ a.values_file_exists
    THEN LineValues(a.values_file) ELSE <<>>

FromStdin(a) == IF ~a.stdin_isatty THEN LineValues(a.stdin) ELSE <<>>

NoInputValues == "No input values found. Use --values, --values-file, or pipe via stdin."

\* The end of read_values: SystemExit when nothing was read.
ValuesOrExit(vals) ==
    IF vals = <<>> THEN Raised("SystemExit", NoInputValues) ELSE Returned(vals)

AllFloats(items) == [k \in 1..Len(items) |-> Float(items[k])]

\* read_values once --values is split into items, with the lines of the
\* file put before the items.
ReadFromFileFirst(a, items) ==
    IF \E k \in 1..Len(items) : ~IsFloat(items[k])
    THEN Raised("ValueError", "could not convert string to float")
    ELSE IF a.values_file_given /\ ~a.values_file_exists
    THEN Raised("FileNotFoundError", "No such file or directory")
    ELSE ValuesOrExit(FromFile(a) \o AllFloats(items) \o FromStdin(a))

\* read_values once --values is split into its non-blank items: float() of
\* an item that is no number raises ValueError, a file that cannot be read
\* raises FileNotFoundError.
ReadFrom(a, items) ==
    IF \E k \in 1..Len(items) : ~IsFloat(items[k])
    THEN Raised("ValueError", "could not convert string to float")
    ELSE IF a.values_file_given /\ ~a.values_file_exists
    THEN Raised("FileNotFoundError", "No such file or directory")
    ELSE ValuesOrExit(AllFloats(items) \o FromFile(a) \o FromStdin(a))

\* read_values(args)
ReadValues(a) == ReadFrom(a, ValueItems(a))

\* ---------------------------------------------------------------- line resolution

\* Whether int(t) returns for a stripped text t: [sign] digits.
IsInt(t) ==
    LET a == IF t # <<>> /\ t[1] \in Signs THEN 2 ELSE 1
    IN a <= Len(t) /\ DigitsEnd(t, a) = Len(t) + 1

\* int(t)
ParseInt(t) ==
    LET a == IF t[1] \in Signs THEN 2 ELSE 1
    IN (IF t[1] = "-" THEN -1 ELSE 1) * DigitsToInt(SubSeq(t, a, Len(t)))

FloatOrNaN(txt) == IF IsFloat(txt) THEN Float(txt) ELSE NaN

\* <<wi, wav, txt>> of an option <<val, txt>>, both stripped.
LineOf(val, txt) == <<ParseInt(val), FloatOrNaN(txt), txt>>

LinesOf(ok) == [k \in 1..Len(ok) |-> LineOf(Strip(ok[k][1]), Strip(ok[k][2]))]

\* The lines of the dropdown: for every option whose value is an integer,
\* <<wi, wav, txt>>, where wav is NaN when the text is no number.
OptionLines(options) ==
    LinesOf(SelectSeq(options, LAMBDA o : Strip(o[1]) # <<>> /\ IsInt(Strip(o[1]))))

LinesOrError(lines) ==
    IF lines = <<>> THEN Raised("RuntimeError", "No lines found for element")
    ELSE Returned(lines)

\* fetch_available_lines(element, session), on the page the server answers
\* with.
FetchAvailableLines(sv) ==
    IF sv.get = "error" THEN Raised("ConnectionError", "connection failed")
    ELSE IF sv.status >= 400 THEN Raised("HTTPError", "error status")
    ELSE IF ~sv.has_select
    THEN Raised("RuntimeError", "Could not find wavelength selector for element")
    ELSE LinesOrError(OptionLines(sv.options))

\* 1e-6
Tolerance == Fin(1, -6)

\* not math.isnan(wav) and abs(wav - wavelength) < 1e-6
IsExact(wav, wavelength) ==
    ~IsNaN(wav) /\ Less(Abs(Sub(wav, wavelength)), Tolerance)

\* The key of min: abs(t[1] - wavelength) if not math.isnan(t[1]) else inf
Distance(t, wavelength) ==
    IF ~IsNaN(t[2]) THEN Abs(Sub(t[2], wavelength)) ELSE Inf

\* min(lines, key=...) from position k on, best being the least so far: a
\* later line replaces it only when its key is smaller.
RECURSIVE MinFrom(_, _, _, _)
MinFrom(lines, wavelength, k, best) ==
    IF k > Len(lines) THEN best
    ELSE IF Less(Distance(lines[k], wavelength), Distance(lines[best], wavelength))
    THEN MinFrom(lines, wavelength, k + 1, k)
    ELSE MinFrom(lines, wavelength, k + 1, best)

\* Lines 168-172 without the loop that looks for an exact match.
ChooseFromLinesNearestOnly(lines, wavelength) ==
    LET nearest == lines[MinFrom(lines, wavelength, 2, 1)]
    IN <<nearest[1], nearest[2]>>

\* choose_wi_from_wavelength, on the lines fetched: <<wi, matched wavelength>>.
ChooseFromLines(lines, wavelength) ==
    IF \E k \in 1..Len(lines) : IsExact(lines[k][2], wavelength)
    THEN LET k == CHOOSE j \in 1..Len(lines) :
                      /\ IsExact(lines[j][2], wavelength)
                      /\ \A h \in 1..(j - 1) : ~IsExact(lines[h][2], wavelength)
         IN <<lines[k][1], lines[k][2]>>
    ELSE LET nearest == lines[MinFrom(lines, wavelength, 2, 1)]
         IN <<nearest[1], nearest[2]>>

\* wav_map.get(wi, nan), where wav_map = {widx: wav for (widx, wav, _) in
\* lines}: of two lines with the same index the later one stays.
WavOf(lines, w) ==
    IF \E k \in 1..Len(lines) : lines[k][1] = w
    THEN lines[CHOOSE k \in 1..Len(lines) :
                   lines[k][1] = w /\ \A j \in (k + 1)..Len(lines) : lines[j][1] # w][2]
    ELSE NaN

\* ---------------------------------------------------------------- main

ChooseExactlyOne == "Choose exactly one: --wavelength OR --wi"

\* Line 338 with "both given" let through.
NeitherGiven(a) == ~a.wavelength_given /\ ~a.wi_given

\* (args.wavelength is None) == (args.wi is None)
NotExactlyOne(a) == (~a.wavelength_given) = (~a.wi_given)

\* ap.error(...) when not exactly one of --wavelength and --wi is given.
CheckLineArgs ==
    /\ pc = "start"
    /\ IF NotExactlyOne(args)
       THEN pc' = "exit" /\ exit' = [type |-> "ArgumentError", msg |-> ChooseExactlyOne]
       ELSE pc' = "read" /\ exit' = exit
    /\ UNCHANGED <<args, server, values, i, rows, wi, matched_wav, httpGets,
                   resps, out, html, parsed>>

\* What main does with the end r of read_values.
HandleValues(r) ==
    IF r.kind = "return"
    THEN values' = r.value /\ pc' = "resolve" /\ exit' = exit
    ELSE values' = values /\ pc' = "exit" /\ exit' = [type |-> r.type, msg |-> r.msg]

\* values = read_values(args): an exception it raises ends the process.
CallReadValues ==
    /\ pc = "read"
    /\ HandleValues(ReadValues(args))
    /\ UNCHANGED <<args, server, i, rows, wi, matched_wav, httpGets, resps,
                   out, html, parsed>>

\* wi, matched_wav = choice
SetLine(choice) == wi' = choice[1] /\ matched_wav' = choice[2]

\* Lines 346-352 once fetch_available_lines has ended as r.
HandleLines(r) ==
    IF r.kind = "raise"
    THEN /\ pc' = "exit"
         /\ exit' = [type |-> r.type, msg |-> r.msg]
         /\ UNCHANGED <<wi, matched_wav, i>>
    ELSE /\ pc' = "loop"
         /\ i' = 1
         /\ exit' = exit
         /\ IF args.wavelength_given
            THEN SetLine(ChooseFromLines(r.value, args.wavelength))
            ELSE wi' = args.wi /\ matched_wav' = WavOf(r.value, args.wi)

\* sess = make_session() and the resolution of wi and matched_wav: one GET
\* of the calculator page; an exception of fetch_available_lines ends the
\* process.
ResolveLine ==
    /\ pc = "resolve"
    /\ httpGets' = httpGets + 1
    /\ HandleLines(FetchAvailableLines(server))
    /\ UNCHANGED <<args, server, values, rows, resps, out, html, parsed>>

\* What the server answers to the query of one value: get is "error" when
\* session.get raises (no connection, retries exhausted), otherwise the
\* response has a status and a page.
Response(get, status, page) == [get |-> get, status |-> status, page |-> page]

\* r = session.get(...); r.raise_for_status(); out = parse_pre_block(r.text)
Fetch(resp) ==
    IF resp.get = "error" THEN Raised("ConnectionError", "connection failed")
    ELSE IF resp.status >= 400 THEN Raised("HTTPError", "error status")
    ELSE ParsePreBlock(resp.page)

\* out.update({"mode": mode}) on what parse_pre_block returned; an exception
\* passes through.
WithMode(o, mode) ==
    IF o.kind = "return" THEN Returned(Update(o.value, "mode", mode)) ELSE o

\* query_A_from_e
QueryAFromE(resp) == WithMode(Fetch(resp), "ew")

\* query_nlte_from_lte
QueryNlteFromLte(resp) == WithMode(Fetch(resp), "lte")

\* The context every row carries.
RECURSIVE UpdateAll(_, _, _)
UpdateAll(d, keys, vals) ==
    IF keys = <<>> THEN d
    ELSE UpdateAll(Update(d, Head(keys), Head(vals)), Tail(keys), Tail(vals))

\* res.update({...}) of lines 372-376
Enriched(res, v) ==
    UpdateAll(res,
        <<"element", "wi", "wavelength_A", "Teff", "logg", "FeH", "vt", "input_value">>,
        <<args.element, wi, matched_wav, args.teff, args.logg, args.feh, args.vt, v>>)

\* err_row of lines 394-398
ErrRow(v, msg) ==
    UpdateAll(EmptyDict,
        <<"mode", "element", "wi", "wavelength_A", "Teff", "logg", "FeH", "vt",
          "input_value", "error">>,
        <<args.mode, args.element, wi, matched_wav, args.teff, args.logg, args.feh,
          args.vt, v, msg>>)

\* Whether "except Exception" catches an exception of this type: SystemExit
\* derives from BaseException only.
IsException(type) == type # "SystemExit"

\* The try block of lines 363-401 once the query function has ended as r:
\* a result is enriched and appended, an Exception becomes an error row, and
\* anything else leaves the loop and main.
HandleQuery(r) ==
    IF r.kind = "return"
    THEN /\ rows' = Append(rows, Enriched(r.value, values[i]))
         /\ i' = i + 1
         /\ UNCHANGED <<pc, exit>>
    ELSE IF IsException(r.type)
    THEN /\ rows' = Append(rows, ErrRow(values[i], r.msg))
         /\ i' = i + 1
         /\ UNCHANGED <<pc, exit>>
    ELSE /\ pc' = "exit"
         /\ exit' = [type |-> r.type, msg |-> r.msg]
         /\ UNCHANGED <<rows, i>>

\* One turn of the loop of lines 361-403, the server answering with resp.
QueryValue(resp) ==
    /\ pc = "loop"
    /\ i <= Len(values)
    /\ httpGets' = httpGets + 1
    /\ resps' = Append(resps, resp)
    /\ HandleQuery(IF args.mode = "ew" THEN QueryAFromE(resp) ELSE QueryNlteFromLte(resp))
    /\ UNCHANGED <<args, server, values, wi, matched_wav, out, html, parsed>>

\* write_csv(rows, args.out), after the last value.
FinalCsv ==
    /\ pc = "loop"
    /\ i > Len(values)
    /\ out' = WriteCsv(rows)
    /\ pc' = "done"
    /\ UNCHANGED <<args, server, values, i, rows, wi, matched_wav, httpGets,
                   resps, exit, html, parsed>>

\* ---------------------------------------------------------------- the runs of main

\* Texts, spelled out.
T_7 == <<"7">>

T_7_m25 == <<"7", ",", "-", "2", ".", "5">>

T_x == <<"x">>

T_ew3 == <<"e", "w", " ", "3", "\n">>

WithInputs(vg, v, tty, sin) ==
    [NoArgs EXCEPT !.values_given = vg, !.values = v,
                   !.stdin_isatty = tty, !.stdin = sin]

\* The inputs of the runs: none, one value, two values, a text that is no
\* number, a value and a line piped in.
MainInputs ==
    { WithInputs(FALSE, <<>>, TRUE, <<>>),
      WithInputs(TRUE, T_7, TRUE, <<>>),
      WithInputs(TRUE, T_7_m25, TRUE, <<>>),
      WithInputs(TRUE, T_x, TRUE, <<>>),
      WithInputs(TRUE, T_7, FALSE, T_ew3) }

DropdownPage(options) ==
    [get |-> "ok", status |-> 200, has_select |-> TRUE, options |-> options]

\* The dropdown of an element: an option without value, two lines, and a
\* line whose label is no number.
MainOptions ==
    << << <<>>, <<"l", "i", "n", "e">> >>,
       << <<"1">>, <<"1">> >>,
       << <<"2">>, <<"2", ".", "5">> >>,
       << <<"3">>, <<"n", "/", "a">> >> >>

MainServers ==
    { DropdownPage(MainOptions),
      DropdownPage(<<>>),
      [NoServer EXCEPT !.status = 503],
      [NoServer EXCEPT !.get = "error"],
      NoServer }

\* The answers to a query: no connection, an error status, a page without
\* <pre>, an empty block, a block without numbers, and blocks of 2, 3, 4 and
\* 5 numbers.
MainResponses ==
    { Response("error", 0, NoPage),
      Response("ok", 404, NoPage),
      Response("ok", 200, NoPage),
      Response("ok", 200, Page(TRUE, <<" ", "\n">>)),
      Response("ok", 200, Page(TRUE, <<"n", "o", " ", "d", "a", "t", "a">>)),
      Response("ok", 200, Page(TRUE, <<"1", " ", "2">>)),
      Response("ok", 200, Page(TRUE, <<"1", " ", "2", " ", "-", "3">>)),
      Response("ok", 200, Page(TRUE, <<"A", "\n", "1", " ", "2", " ", "-", "3", " ", "4">>)),
      Response("ok", 200, Page(TRUE, <<"E", "W", "\n", "6", "5", " ", "8", ".", "7", " ",
                                       "8", ".", "5", " ", "-", ".", "2", " ", "0">>)) }

Init ==
    /\ pc = "start"
    /\ \E wg, ig \in BOOLEAN, m \in {"ew", "lte"}, a \in MainInputs :
         args = [a EXCEPT !.wavelength_given = wg, !.wavelength = Fin(15, -1),
                          !.wi_given = ig, !.wi = 2, !.mode = m]
    /\ server \in MainServers
    /\ values = <<>>
    /\ i = 0
    /\ rows = <<>>
    /\ wi = 0
    /\ matched_wav = NaN
    /\ httpGets = 0
    /\ resps = <<>>
    /\ out = NoOut
    /\ exit = NoExit
    /\ html = NoPage
    /\ parsed = NoResult

Next ==
    \/ CheckLineArgs
    \/ CallReadValues
    \/ ResolveLine
    \/ \E resp \in MainResponses : QueryValue(resp)
    \/ FinalCsv

Spec == Init /\ [][Next]_vars

\* Whether the query that the server answered with resp failed: no answer,
\* an error status, a page without <pre>, or a block that is empty or not
\* recognised.
QueryFailed(resp) ==
    \/ resp.get = "error"
    \/ resp.status >= 400
    \/ ~resp.page.has_pre
    \/ ParsePreBlock(resp.page).kind = "raise"

\* C1: errors never crash the batch: every value whose query failed has its
\* row with an "error" message, the loop goes on after it, and write_csv is
\* reached with one row per input.
C1_ErrorsNeverCrashBatch ==
    /\ \A k \in 1..Len(resps) :
          QueryFailed(resps[k]) =>
              /\ k <= Len(rows)
              /\ "error" \in DOMAIN rows[k]
              /\ rows[k]["input_value"] = values[k]
    /\ resps # <<>> => pc \in {"loop", "done"}
    /\ pc = "done" => out.written /\ Len(out.body) = Len(values)

\* C2: the line is selected by exactly one of --wavelength and --wi: with
\* both or neither, main ends in the argument error before a value is read
\* and before any request; with exactly one, the argument check lets the run
\* through to read_values and line resolution.
C2_ExactlyOneLineSelector ==
    pc # "start" =>
        IF args.wavelength_given = args.wi_given
        THEN /\ pc = "exit"
             /\ exit = [type |-> "ArgumentError", msg |-> ChooseExactlyOne]
             /\ values = <<>>
             /\ httpGets = 0
        ELSE /\ exit.type # "ArgumentError"
             /\ pc \in {"read", "resolve", "loop", "done", "exit"}
             /\ pc \in {"resolve", "loop", "done"} => values # <<>>
             /\ pc \in {"loop", "done"} => httpGets > 0

\* Both options given: the run has ended in the argument error.
C2_Witness ==
    /\ args.wavelength_given
    /\ args.wi_given
    /\ pc = "exit"
    /\ exit.msg = ChooseExactlyOne

\* ---------------------------------------------------------------- read_values, on every input

\* The most items of --values.
MaxItems == 2

\* The most lines of the file and of stdin.
MaxLines == 2

SeqsUpTo(S, n) == UNION {[1..k -> S] : k \in 0..n}

\* The items of --values: a number, a signed number in blanks, a blank
\* item, a text that is no number.
ItemPool == { T_7, <<" ", "-", "2", ".", "5">>, <<" ">>, T_x }

\* The lines of the file: a number, a line whose first number is not its
\* first field, an empty line, a line without a number.
FileLinePool == { <<" ", "7">>, <<"x", "=", "3", ",", "4">>, <<>>, <<"a", "b">> }

\* The lines piped in.
StdinLinePool == { <<"a", "b", " ", "7">> }

RECURSIVE JoinWith(_, _)
JoinWith(sq, sep) ==
    IF sq = <<>> THEN <<>>
    ELSE IF Len(sq) = 1 THEN sq[1]
    ELSE sq[1] \o <<sep>> \o JoinWith(Tail(sq), sep)

\* A text of the lines ls, each ended by a line break.
RECURSIVE TextOf(_)
TextOf(ls) == IF ls = <<>> THEN <<>> ELSE Head(ls) \o <<"\n">> \o TextOf(Tail(ls))

\* What --values can be: absent, or the items joined by commas.
ValuesChoices ==
    {[given |-> FALSE, text |-> <<>>]}
    \cup {[given |-> TRUE, text |-> JoinWith(sq, ",")] : sq \in SeqsUpTo(ItemPool, MaxItems)}

\* What --values-file can be: absent, the name of a file that is not there,
\* or a file of lines.
FileChoices ==
    {[given |-> FALSE, exists |-> FALSE, text |-> <<>>],
     [given |-> TRUE, exists |-> FALSE, text |-> <<>>]}
    \cup {[given |-> TRUE, exists |-> TRUE, text |-> TextOf(ls)] :
             ls \in SeqsUpTo(FileLinePool, MaxLines)}

\* What stdin can be: a terminal, or lines piped in.
StdinChoices ==
    {[isatty |-> TRUE, text |-> <<>>]}
    \cup {[isatty |-> FALSE, text |-> TextOf(ls)] : ls \in SeqsUpTo(StdinLinePool, MaxLines)}

InitRead ==
    /\ pc = "start"
    /\ \E v \in ValuesChoices, f \in FileChoices, sin \in StdinChoices :
         args = [NoArgs EXCEPT !.wi_given = TRUE, !.wi = 2,
                               !.values_given = v.given, !.values = v.text,
                               !.values_file_given = f.given,
                               !.values_file_exists = f.exists,
                               !.values_file = f.text,
                               !.stdin_isatty = sin.isatty, !.stdin = sin.text]
    /\ server = DropdownPage(MainOptions)
    /\ values = <<>>
    /\ i = 0
    /\ rows = <<>>
    /\ wi = 0
    /\ matched_wav = NaN
    /\ httpGets = 0
    /\ resps = <<>>
    /\ out = NoOut
    /\ exit = NoExit
    /\ html = NoPage
    /\ parsed = NoResult

NextRead == CheckLineArgs \/ CallReadValues \/ ResolveLine

SpecRead == InitRead /\ [][NextRead]_vars

\* The first numeric token of every line that has one, line by line.
RECURSIVE FirstTokens(_)
FirstTokens(ls) ==
    IF ls = <<>> THEN <<>>
    ELSE (IF HasDigit(Head(ls)) THEN <<Float(FirstNumber(Head(ls)))>> ELSE <<>>)
         \o FirstTokens(Tail(ls))

\* The values of the comma-separated items, the blank ones skipped.
RECURSIVE ItemValues(_)
ItemValues(items) ==
    IF items = <<>> THEN <<>>
    ELSE (IF \E k \in 1..Len(Head(items)) : Head(items)[k] # " "
          THEN <<Float(Head(items))>> ELSE <<>>)
         \o ItemValues(Tail(items))

ExpectedValues ==
    (IF args.values_given THEN ItemValues(SplitOn(args.values, ",")) ELSE <<>>)
    \o (IF args.values_file_given THEN FirstTokens(SplitOn(args.values_file, "\n")) ELSE <<>>)
    \o (IF ~args.stdin_isatty THEN FirstTokens(SplitOn(args.stdin, "\n")) ELSE <<>>)

\* Every item of --values is blank or a number, and the file can be read.
ReadableInputs ==
    /\ \A it \in {SplitOn(args.values, ",")[k] : k \in 1..Len(SplitOn(args.values, ","))} :
          (\A k \in 1..Len(it) : it[k] = " ") \/ IsFloat(it)
    /\ args.values_file_given => args.values_file_exists

\* C6: read_values returns the values of --values (blank items skipped),
\* then the first numeric token of every line of the file that has one,
\* then the same of stdin, in that order and with none dropped or merged;
\* when there is none the program exits with "No input values found" before
\* any request.
C6_ValuesInOrder ==
    (pc \notin {"start", "read"} /\ ReadableInputs) =>
        IF ExpectedValues # <<>>
        THEN values = ExpectedValues /\ exit.type # "SystemExit"
        ELSE /\ pc = "exit"
             /\ exit = [type |-> "SystemExit", msg |-> NoInputValues]
             /\ httpGets = 0

\* The same value given three times, by --values, the file and stdin.
C6_Witness ==
    /\ pc = "resolve"
    /\ args.values_given /\ args.values_file_given /\ ~args.stdin_isatty
    /\ Len(values) = 3
    /\ values[1] = values[2] /\ values[2] = values[3]

\* ---------------------------------------------------------------- choose_wi_from_wavelength, on every dropdown

\* The most options of the dropdown.
MaxOptions == 3

\* The texts of the options: three wavelengths, two of them less than 1e-6
\* apart, a label that is no number and an infinite one.
LabelPool ==
    { <<"1">>, <<"1", ".", "0", "0", "0", "0", "0", "0", "5">>, <<"2">>,
      <<"n", "/", "a">>, <<"i", "n", "f">> }

\* The wavelengths asked for: 1, 1.0000004, 1.5 and 3, and the two values of
\* type float that are no wavelength, inf and nan.
Requests == { Fin(1, 0), Fin(10000004, -7), Fin(15, -1), Fin(3, 0), Inf, NaN }

DigitChars == <<"1", "2", "3", "4", "5", "6", "7", "8", "9">>

\* The dropdown whose k-th option has the value k and the k-th label.
OptionsOf(labels) == [k \in 1..Len(labels) |-> << <<DigitChars[k]>>, labels[k] >>]

InitChoose ==
    /\ pc = "start"
    /\ \E w \in Requests :
         args = [WithInputs(TRUE, T_7, TRUE, <<>>) EXCEPT
                    !.wavelength_given = TRUE, !.wavelength = w]
    /\ \E labels \in SeqsUpTo(LabelPool, MaxOptions) :
         labels # <<>> /\ server = DropdownPage(OptionsOf(labels))
    /\ values = <<>>
    /\ i = 0
    /\ rows = <<>>
    /\ wi = 0
    /\ matched_wav = NaN
    /\ httpGets = 0
    /\ resps = <<>>
    /\ out = NoOut
    /\ exit = NoExit
    /\ html = NoPage
    /\ parsed = NoResult

SpecChoose == InitChoose /\ [][NextRead]_vars

\* The wavelength of the k-th option, NaN when its label is no number.
WavAt(k) == FloatOrNaN(server.options[k][2])

\* Within 1e-6 of the wavelength asked for.
ExactAt(k) ==
    ~IsNaN(WavAt(k)) /\ Less(Abs(Sub(WavAt(k), args.wavelength)), Fin(1, -6))

\* The distance of the k-th option: infinite for a label that is no number.
DistAt(k) == IF IsNaN(WavAt(k)) THEN Inf ELSE Abs(Sub(WavAt(k), args.wavelength))

\* C3: choose_wi_from_wavelength returns the first option within 1e-6 of
\* the wavelength asked for; when there is none, the option at the least
\* distance, the first of them on ties, an option whose label is no number
\* being infinitely far.
C3_ExactElseNearest ==
    pc = "loop" =>
        LET n == Len(server.options) IN
        /\ wi \in 1..n
        /\ matched_wav = WavAt(wi)
        /\ IF \E k \in 1..n : ExactAt(k)
           THEN ExactAt(wi) /\ \A j \in 1..(wi - 1) : ~ExactAt(j)
           ELSE /\ \A j \in 1..n : ~Less(DistAt(j), DistAt(wi))
                /\ \A j \in 1..(wi - 1) : Less(DistAt(wi), DistAt(j))

\* No option is exact, the first label is no number, and the second and
\* third options are equally near: the second is chosen.
C3_Witness ==
    /\ pc = "loop"
    /\ Len(server.options) = 3
    /\ \A k \in 1..3 : ~ExactAt(k)
    /\ IsNaN(WavAt(1))
    /\ DistAt(2) = DistAt(3)
    /\ DistAt(2) # Inf
    /\ wi = 2

====
